---- MODULE Spec2Model ----
(***************************************************************************)
(* A state-machine model of the Linq channel plugin:                       *)
(*   - the webhook ingress handler, the inbound debouncer callbacks and    *)
(*     handleMessage of monitorLinqProvider (src/unnamed/part_001);        *)
(*   - the outbound client fetchWithRetry / sendMessageLinq /              *)
(*     fireAndForget (src/src/linq/probe.ts).                              *)
(*                                                                         *)
(* Strings whose characters the code inspects (sender identifiers,         *)
(* allowlist entries, message texts, header values, hex digests) are       *)
(* sequences of one-character strings.  The JavaScript event loop runs     *)
(* every callback to its next await: the variable `turn` names the         *)
(* callback that holds the loop, and only that callback may step.          *)
(***************************************************************************)
EXTENDS Integers, Sequences, FiniteSets, TLC

\* ------------------------------------------------------------------ bounds
\* Number of webhook requests the provider sends in one behaviour.
MaxRequests == 2
\* Number of writes the external pairing collaborator makes to the store.
MaxStoreWrites == 2
\* Number of body chunks one request is streamed in.
MaxChunks == 2

\* ----------------------------------------------------------------- strings
\* `undefined` for atoms (policy names, phone numbers) and for strings
Undefined == "<undefined>"
NoStr == <<"<undefined>">>

NL == "\n"
\* \s of a JavaScript regular expression, String.prototype.trim
IsSpace(c) == c = " " \/ c = NL

RECURSIVE TrimStart(_)
TrimStart(s) ==
  IF s = <<>> THEN <<>>
  ELSE IF IsSpace(Head(s)) THEN TrimStart(Tail(s)) ELSE s

RECURSIVE TrimEnd(_)
TrimEnd(s) ==
  IF s = <<>> THEN <<>>
  ELSE IF IsSpace(s[Len(s)]) THEN TrimEnd(SubSeq(s, 1, Len(s) - 1)) ELSE s

\* String.prototype.trim
Trim(s) == TrimEnd(TrimStart(s))

\* String.prototype.toLowerCase on the model's alphabet
LowerChar(c) ==
  CASE c = "A" -> "a"
    [] c = "B" -> "b"
    [] c = "C" -> "c"
    [] c = "D" -> "d"
    [] c = "E" -> "e"
    [] c = "F" -> "f"
    [] OTHER -> c

ToLowerCase(s) == [i \in 1..Len(s) |-> LowerChar(s[i])]

\* s.replace(/[\s()-]/g, "")
IsStripped(c) == IsSpace(c) \/ c = "(" \/ c = ")" \/ c = "-"
NotStripped(c) == ~IsStripped(c)
StripFormat(s) == SelectSeq(s, NotStripped)

\* sender.replace(/[\s()-]/g, "").toLowerCase()
NormalizeId(s) == ToLowerCase(StripFormat(s))

Star == <<"*">>

SeqRange(s) == {s[i] : i \in 1..Len(s)}

RECURSIVE SetToSeq(_)
SetToSeq(S) ==
  IF S = {} THEN <<>>
  ELSE LET x == CHOOSE y \in S : TRUE IN <<x>> \o SetToSeq(S \ {x})

\* Array.from(new Set(list)): first occurrences, in order
RECURSIVE Dedup(_)
Dedup(s) ==
  IF s = <<>> THEN <<>>
  ELSE LET init == Dedup(SubSeq(s, 1, Len(s) - 1))
           last == s[Len(s)]
       IN IF last \in SeqRange(init) THEN init ELSE Append(init, last)

NonEmptyStr(s) == s # <<>>

\* raw.map((v) => String(v).trim()).filter(Boolean)
TrimAndFilter(list) ==
  SelectSeq([i \in 1..Len(list) |-> Trim(list[i])], NonEmptyStr)

\* ------------------------------------------------------- pure functions
\* raw: [defined |-> BOOLEAN, items |-> list]
normalizeAllowList(raw) ==
  IF ~raw.defined THEN <<>> ELSE TrimAndFilter(raw.items)

isAllowedLinqSender(allowFrom, sender) ==
  IF Star \in SeqRange(allowFrom) THEN TRUE
  ELSE LET normalized == NormalizeId(sender)
       IN \E i \in 1..Len(allowFrom) : NormalizeId(allowFrom[i]) = normalized

\* filter type = "text", map value, join("\n")
RECURSIVE JoinLines(_)
JoinLines(texts) ==
  IF texts = <<>> THEN <<>>
  ELSE IF Len(texts) = 1 THEN texts[1]
  ELSE texts[1] \o <<NL>> \o JoinLines(Tail(texts))

IsTextPart(p) == p.type = "text"
extractTextContent(parts) ==
  LET tp == SelectSeq(parts, IsTextPart)
  IN JoinLines([i \in 1..Len(tp) |-> tp[i].value])

Truthy(s) == s # NoStr /\ s # <<>>
IsMediaPart(p) == p.type = "media" /\ Truthy(p.url) /\ Truthy(p.mime_type)
extractMediaUrls(parts) ==
  LET mp == SelectSeq(parts, IsMediaPart)
  IN [i \in 1..Len(mp) |-> [url |-> mp[i].url, mimeType |-> mp[i].mime_type]]

\* ------------------------------------------------------------- numbers
DigitVal(c) ==
  CASE c = "0" -> 0 [] c = "1" -> 1 [] c = "2" -> 2 [] c = "3" -> 3
    [] c = "4" -> 4 [] c = "5" -> 5 [] c = "6" -> 6 [] c = "7" -> 7
    [] c = "8" -> 8 [] c = "9" -> 9 [] OTHER -> -1

IsDigit(c) == DigitVal(c) >= 0
AllDigits(s) == \A i \in 1..Len(s) : IsDigit(s[i])

RECURSIVE DigitsValue(_)
DigitsValue(s) ==
  IF s = <<>> THEN 0
  ELSE 10 * DigitsValue(SubSeq(s, 1, Len(s) - 1)) + DigitVal(s[Len(s)])

IndexOfDot(s) ==
  IF \E i \in 1..Len(s) : s[i] = "."
  THEN CHOOSE i \in 1..Len(s) : s[i] = "." /\ \A j \in 1..(i - 1) : s[j] # "."
  ELSE 0

\* The thousandfold of an unsigned decimal literal: digits, or digits "."
\* and one to three digits.  [nan |-> TRUE] when the text is no literal.
UnsignedMilli(s) ==
  LET d == IndexOfDot(s) IN
  IF d = 0
  THEN IF s # <<>> /\ AllDigits(s)
       THEN [nan |-> FALSE, milli |-> 1000 * DigitsValue(s)]
       ELSE [nan |-> TRUE, milli |-> 0]
  ELSE LET ip == SubSeq(s, 1, d - 1)
           fp == SubSeq(s, d + 1, Len(s))
           pad == fp \o SubSeq(<<"0", "0", "0">>, 1, 3 - Len(fp))
       IN IF AllDigits(ip) /\ AllDigits(fp) /\ Len(ip) + Len(fp) > 0 /\ Len(fp) <= 3
          THEN [nan |-> FALSE, milli |-> 1000 * DigitsValue(ip) + DigitsValue(pad)]
          ELSE [nan |-> TRUE, milli |-> 0]

\* Number(value), in thousandths: null and "" and blank text are 0, a
\* decimal literal (optionally signed, surrounded by blanks) is its value,
\* any other text is NaN.
Number(value) ==
  IF value = NoStr THEN [nan |-> FALSE, milli |-> 0]
  ELSE LET t == Trim(value) IN
    IF t = <<>> THEN [nan |-> FALSE, milli |-> 0]
    ELSE IF Head(t) = "-"
         THEN LET u == UnsignedMilli(Tail(t))
              IN [nan |-> u.nan, milli |-> 0 - u.milli]
         ELSE IF Head(t) = "+" THEN UnsignedMilli(Tail(t))
         ELSE UnsignedMilli(t)

Abs(x) == IF x < 0 THEN 0 - x ELSE x
Min(a, b) == IF a < b THEN a ELSE b

\* ------------------------------------------------------------ messages
TextPart(v) == [type |-> "text", value |-> v, url |-> NoStr, mime_type |-> NoStr]
MediaPart(u, m) == [type |-> "media", value |-> NoStr, url |-> u, mime_type |-> m]

Hi == <<"h", "i">>
Yo == <<"y", "o">>
Cmd == <<"/", "s">>
Blank == <<" ">>
Url1 == <<"u">>
Png == <<"p">>

SenderA == <<"a">>
SenderAFmt == <<" ", "(", "A", ")">>
SenderB == <<"b">>

\* LinqMessageReceivedData as the provider posts it (message.id is given
\* by the request that carries it)
MkData(from, me, rcpt, parts) ==
  [id |-> 0, from |-> from, chat_id |-> "c1", is_from_me |-> me,
   recipient_phone |-> rcpt, parts |-> parts, reply_to |-> NoStr]

DataHi == MkData(SenderA, FALSE, "p1", <<TextPart(Hi)>>)
DataCmd == MkData(SenderA, FALSE, "p1", <<TextPart(Cmd)>>)
DataYo == MkData(SenderA, FALSE, "p1", <<TextPart(Yo)>>)
DataFmt == MkData(SenderAFmt, FALSE, "p1", <<TextPart(Hi)>>)
DataBoth == MkData(SenderB, FALSE, "p1", <<TextPart(Hi), MediaPart(Url1, Png)>>)
DataMedia == MkData(SenderB, FALSE, "p1", <<MediaPart(Url1, Png)>>)
\* a message flagged as the account's own, in the conversation of DataYo
DataEcho == MkData(SenderA, TRUE, "p1", <<TextPart(Hi)>>)

EligibleData == {DataHi, DataCmd, DataYo, DataFmt, DataBoth, DataMedia}

IneligibleData ==
  { DataEcho,
    MkData(SenderA, FALSE, "p2", <<TextPart(Hi)>>),
    MkData(NoStr, FALSE, "p1", <<TextPart(Hi)>>),
    MkData(Blank, FALSE, "p1", <<TextPart(Hi)>>),
    MkData(SenderA, FALSE, "p1", <<TextPart(Blank)>>),
    MkData(SenderA, FALSE, "p1", <<MediaPart(Url1, NoStr)>>) }

Datas == EligibleData \cup IneligibleData

MessageBody(d) == [json |-> "object", event_type |-> "message.received", data |-> d]

OtherBodies ==
  { [json |-> "invalid"], [json |-> "null"],
    [json |-> "object", event_type |-> "reaction.received"],
    [json |-> "object", event_type |-> "message.delivery_status"],
    [json |-> "object", event_type |-> "something.else"] }

\* The raw request bodies the provider (or anyone else) may post.
RawBodies == OtherBodies \cup {MessageBody(d) : d \in Datas}

\* The bodies posted in one run: conversations, edge cases, a mix of
\* event kinds, or bursts in one conversation.
AuthBodies == {MessageBody(d) : d \in {DataHi, DataCmd, DataFmt, DataBoth}}
EdgeBodies == {MessageBody(d) : d \in IneligibleData \cup {DataMedia}}
IngressBodies == OtherBodies \cup {MessageBody(DataHi), MessageBody(DataCmd)}
BurstBodies == {MessageBody(d) : d \in {DataHi, DataYo, DataBoth}}
EchoBodies == {MessageBody(d) : d \in {DataYo, DataEcho}}

\* --------------------------------------------------- signature verifier
HexChars == <<"0", "1", "2", "3", "4", "5", "6", "7",
              "8", "9", "a", "b", "c", "d", "e", "f">>

HexVal(c) ==
  IF IsDigit(c) THEN DigitVal(c)
  ELSE LET l == LowerChar(c) IN
    CASE l = "a" -> 10 [] l = "b" -> 11 [] l = "c" -> 12
      [] l = "d" -> 13 [] l = "e" -> 14 [] l = "f" -> 15 [] OTHER -> -1

\* Buffer.from(s, "hex"): whole pairs of hex digits, up to the first pair
\* that is not one; a trailing single character is dropped.
RECURSIVE HexDecode(_)
HexDecode(s) ==
  IF Len(s) < 2 THEN <<>>
  ELSE IF HexVal(s[1]) < 0 \/ HexVal(s[2]) < 0 THEN <<>>
  ELSE <<16 * HexVal(s[1]) + HexVal(s[2])>> \o HexDecode(SubSeq(s, 3, Len(s)))

Secrets == <<<<"k">>, <<"j">>>>
TimestampTexts == << <<"2", "9", "9">>, <<"3", "0", "0">>, <<"9", "0", "0">>,
                     <<"9", "0", "1">>, <<"x">> >>
BodySeq == SetToSeq(RawBodies)

IndexIn(seq, x) == CHOOSE i \in 1..Len(seq) : seq[i] = x

\* createHmac("sha256", secret).update(timestamp + "." + payload).digest("hex"):
\* 64 lowercase hex digits, different for different (secret, timestamp, payload)
DigestLen == 64
HmacSha256Hex(secret, timestamp, payload) ==
  LET n == ((IndexIn(Secrets, secret) - 1) * Len(TimestampTexts)
             + (IndexIn(TimestampTexts, timestamp) - 1)) * Len(BodySeq)
           + IndexIn(BodySeq, payload)
      d(k) == HexChars[((n \div k) % 16) + 1]
  IN <<d(256), d(16), d(1)>> \o [i \in 1..(DigestLen - 3) |-> "c"]

verifyWebhookSignature(secret, payload, timestamp, signature) ==
  LET expected == HmacSha256Hex(secret, timestamp, payload)
      a == HexDecode(expected)
      b == HexDecode(signature)
  IN IF Len(a) # Len(b) THEN FALSE   \* timingSafeEqual throws, caught
     ELSE a = b

\* ------------------------------------------------------- configuration
AllowRaw(items) == [defined |-> TRUE, items |-> items]
NoAllow == [defined |-> FALSE, items |-> <<>>]

MkCfg(policy, allow, secret, phone) ==
  [dmPolicy |-> policy, allowFrom |-> allow, webhookSecret |-> secret,
   fromPhone |-> phone]

\* The runs: the account configuration monitorLinqProvider is started
\* with, and the bodies posted to it.
Run(c, bodies) == [cfg |-> c, bodies |-> bodies]
Runs ==
  << Run(MkCfg("open", NoAllow, NoStr, "p1"), AuthBodies),
     Run(MkCfg("pairing", NoAllow, NoStr, "p1"), AuthBodies),
     Run(MkCfg("disabled", NoAllow, NoStr, "p1"), AuthBodies),
     Run(MkCfg("allowlist", NoAllow, NoStr, "p1"), AuthBodies),
     Run(MkCfg(Undefined, NoAllow, NoStr, "p1"), {MessageBody(DataHi), MessageBody(DataCmd)}),
     Run(MkCfg("pairing", AllowRaw(<<Blank, <<"B">>>>), Blank, "p1"), AuthBodies),
     Run(MkCfg("open", NoAllow, NoStr, Undefined), EdgeBodies),
     Run(MkCfg("pairing", NoAllow, NoStr, "p1"), EdgeBodies),
     Run(MkCfg("open", NoAllow, <<"k", " ">>, "p1"), IngressBodies),
     Run(MkCfg("open", NoAllow, NoStr, "p1"), BurstBodies),
     Run(MkCfg("open", NoAllow, NoStr, "p1"), EchoBodies),
     Run(MkCfg("open", NoAllow, <<"k">>, "p1"), OtherBodies) >>

accountId == "default"
WebhookPathDefault ==
  <<"/", "l", "i", "n", "q", "-", "w", "e", "b", "h", "o", "o", "k">>
maxPayloadBytes == 1024 * 1024
MaxAgeSeconds == 300

Paths == {WebhookPathDefault, WebhookPathDefault \o <<"/", "x">>, <<"/", "o">>}
Methods == {"POST", "GET"}
ChunkSizes == {1, 1048576}
Nows == {600000, 600001}

StartsWith(s, prefix) ==
  Len(s) >= Len(prefix) /\ SubSeq(s, 1, Len(prefix)) = prefix

VARIABLES
  srv,          \* monitorLinqProvider's own call and its HTTP server
  sd,           \* the call of the outbound client under way
  run,          \* which of Runs this is (fixed)
  turn,         \* the callback that holds the event loop, 0 when idle
  reqs,         \* the request handlers, by request number
  resp,         \* the status each request was answered with, 0 while unanswered
  parsed,       \* requests whose body reached JSON.parse
  enqueued,     \* requests whose event reached inboundDebouncer.enqueue
  buffers,      \* the debouncer's pending batches: key -> entries
  hm,           \* the handleMessage executions, by the id of the event
  store,        \* the persisted allow-from store
  pairing,      \* the pairing requests: records [id, code]
  codes,        \* pairing codes minted so far
  storeWrites,  \* writes by the pairing collaborator so far
  approved,     \* senders the collaborator has approved at some time
  outbound,     \* platform calls made: [kind, id, chat, sender], id and sender
                \* being the message and the sender handleMessage made it for
  storeReads,   \* executions that read the allow-from store
  matched,      \* executions that evaluated the allowlist
  upserts,      \* executions that called upsertPairingRequest
  dispatched,   \* executions that called dispatchReplyFromConfig
  errorLog      \* errors reported through runtime.error

vars == <<srv, sd, run, turn, reqs, resp, parsed, enqueued, buffers, hm, store,
          pairing, codes, storeWrites, approved, outbound, storeReads,
          matched, upserts, dispatched, errorLog>>

ingressVars == <<reqs, resp, parsed, enqueued>>
authVars == <<hm, outbound, storeReads, matched, upserts, dispatched>>
envVars == <<store, pairing, codes, storeWrites, approved>>

Requests == 1..MaxRequests

\* the account configuration and the bodies posted, of this run
linqCfg == Runs[run].cfg
posted == Runs[run].bodies

\* monitorLinqProvider, lines 90-95
allowFrom == normalizeAllowList(linqCfg.allowFrom)
dmPolicy == IF linqCfg.dmPolicy = Undefined THEN "pairing" ELSE linqCfg.dmPolicy
webhookSecret ==
  IF linqCfg.webhookSecret = NoStr THEN <<>> ELSE Trim(linqCfg.webhookSecret)
webhookPath == WebhookPathDefault
fromPhone == linqCfg.fromPhone

NoBody == [json |-> "none"]
NoData == MkData(NoStr, FALSE, Undefined, <<>>)
NewReq == [pc |-> "new", size |-> 0, held |-> 0, nchunks |-> 0, body |-> NoBody,
           ts |-> NoStr, sig |-> NoStr, now |-> 0]
DoneReq == [NewReq EXCEPT !.pc = "done"]

\* data and allow are kept as long as handleMessage reads them;
\* replyFailed is the verbose log entry of line 207, readOk whether the
\* store read of line 172 resolved (kept up to the next await's end)
NoExec == [pc |-> "none", data |-> NoData, id |-> 0, allow |-> <<>>,
           created |-> FALSE, code |-> 0, attempt |-> 0,
           replyFailed |-> FALSE, readOk |-> FALSE]
DoneExec == [NoExec EXCEPT !.pc = "done"]
\* handleMessage returned after the catch of lines 206-208: the log entry
\* names the sender, and the code is the one the reply carried
FailedReply(exec) ==
  [DoneExec EXCEPT !.replyFailed = TRUE, !.data = exec.data,
                   !.code = exec.code]

\* The outbound client before a call: op is the operation, fetches the
\* HTTP requests made, log the responses received, waits the delays slept,
\* parts the kinds of the parts sent, result what the call gave its caller.
\* args are the arguments of a send, body what response.text() gave.
NoCall == [pc |-> "idle", op |-> "none", attempt |-> 0, fetches |-> 0,
           log |-> <<>>, waits |-> <<>>, parts |-> <<>>,
           args |-> [kind |-> "none"], body |-> NoStr,
           result |-> [kind |-> "none"]]

\* monitorLinqProvider's call: pc is where the call stands ("listen" at
\* the await of line 391, "wait" at the await of line 407 or 415,
\* "resolved", or "rejected" by a listen error), server the state of the
\* HTTP server, signal opts.abortSignal ("none" when not supplied),
\* onAbort whether the abort listener is registered, abortedAt the pc at
\* which the signal was aborted ("start": before the call).
Serving(signal) ==
  [pc |-> "wait", server |-> "listening", signal |-> signal,
   onAbort |-> signal # "none", abortedAt |-> "never"]
Starting(signal) ==
  [pc |-> "listen", server |-> "starting", signal |-> signal,
   onAbort |-> FALSE,
   abortedAt |-> IF signal = "aborted" THEN "start" ELSE "never"]

MonitorInit ==
  /\ turn = 0
  /\ reqs = [r \in Requests |-> NewReq]
  /\ resp = [r \in Requests |-> 0]
  /\ parsed = {}
  /\ enqueued = {}
  /\ buffers = {}
  /\ hm = [r \in Requests |-> NoExec]
  /\ store = {}
  /\ pairing = {}
  /\ codes = 0
  /\ storeWrites = 0
  /\ approved = {}
  /\ outbound = {}
  /\ storeReads = {}
  /\ matched = {}
  /\ upserts = {}
  /\ dispatched = {}
  /\ errorLog = {}

Init ==
  /\ run \in 1..Len(Runs)
  /\ srv = Serving("none")
  /\ sd = NoCall
  /\ MonitorInit

\* ------------------------------------------------ webhook request handler

\* The headers [ts, sig, now] a request with this body may carry, and the
\* clock it meets: the provider's digest with every timestamp and clock;
\* a fresh timestamp with no signature, an empty one, a digest under
\* another key, the digest of another timestamp, the digest with text
\* appended or cut short; a missing or empty timestamp; a stale timestamp
\* with a bad signature.
Headers(timestamp, signature, nowMs) ==
  [ts |-> timestamp, sig |-> signature, now |-> nowMs]
FreshTs == TimestampTexts[2]
HeaderCases(body) ==
  LET good(t) == HmacSha256Hex(Secrets[1], t, body) IN
  { Headers(t, good(t), n) : t \in SeqRange(TimestampTexts), n \in Nows }
  \cup { Headers(FreshTs, sg, 600000) :
           sg \in {NoStr, <<>>, HmacSha256Hex(Secrets[2], FreshTs, body),
                   good(TimestampTexts[3]), good(FreshTs) \o <<"z", "z">>,
                   SubSeq(good(FreshTs), 1, DigestLen - 2)} }
  \cup { Headers(t, good(FreshTs), 600000) : t \in {NoStr, <<>>} }
  \cup { Headers(TimestampTexts[1], HmacSha256Hex(Secrets[2], TimestampTexts[1], body), 600000) }

\* Variant of authStatus without the replay window (lines 359-364 left out)
authStatus_noReplayWindow(secret, rawBody, timestamp, signature, nowMs) ==
  IF secret # <<>>
  THEN IF ~Truthy(timestamp) \/ ~Truthy(signature)
          \/ ~verifyWebhookSignature(secret, rawBody, timestamp, signature)
       THEN 401
       ELSE 200
  ELSE 200

\* lines 347-365: the status the authentication step decides, 200 to go on
authStatus(secret, rawBody, timestamp, signature, nowMs) ==
  IF secret # <<>>
  THEN IF ~Truthy(timestamp) \/ ~Truthy(signature)
          \/ ~verifyWebhookSignature(secret, rawBody, timestamp, signature)
       THEN 401
       ELSE LET ts == Number(timestamp) IN
            \* age = |Date.now() / 1000 - Number(timestamp)|, in thousandths
            IF ts.nan \/ Abs(nowMs - ts.milli) > MaxAgeSeconds * 1000
            THEN 401
            ELSE 200
  ELSE 200

\* lines 326-331
routeStatus(method, path) ==
  IF method # "POST" \/ ~StartsWith(path, webhookPath) THEN 404 ELSE 0

\* Variant of overCap that also refuses a body of exactly the cap
overCap_inclusive(size) == size >= maxPayloadBytes

\* lines 337-343: does the chunk push the running size over the cap?
overCap(size) == size > maxPayloadBytes

ReqArrive(r, method, path) ==
  /\ turn = 0
  /\ srv.server = "listening"
  /\ reqs[r].pc = "new"
  /\ \A q \in Requests : q < r => reqs[q].pc # "new"
  /\ IF routeStatus(method, path) = 404
     THEN /\ resp' = [resp EXCEPT ![r] = 404]
          /\ reqs' = [reqs EXCEPT ![r] = DoneReq]
     ELSE /\ reqs' = [reqs EXCEPT ![r].pc = "body"]
          /\ UNCHANGED resp
  /\ UNCHANGED <<srv, sd, run, turn, parsed, enqueued, buffers, errorLog>>
  /\ UNCHANGED <<authVars, envVars>>

ReqChunk(r, n) ==
  /\ turn = 0
  /\ reqs[r].pc = "body"
  /\ reqs[r].nchunks < MaxChunks
  /\ LET size == reqs[r].size + n IN
     IF overCap(size)
     THEN /\ resp' = [resp EXCEPT ![r] = 413]
          /\ reqs' = [reqs EXCEPT ![r] = [DoneReq EXCEPT !.size = size]]
     ELSE /\ reqs' = [reqs EXCEPT ![r].size = size,
                                  ![r].held = reqs[r].held + n,
                                  ![r].nchunks = reqs[r].nchunks + 1]
          /\ UNCHANGED resp
  /\ UNCHANGED <<srv, sd, run, turn, parsed, enqueued, buffers, errorLog>>
  /\ UNCHANGED <<authVars, envVars>>

\* The stream ends: rawBody = Buffer.concat(chunks).toString("utf8")
ReqEnd(r, body) ==
  /\ turn = 0
  /\ reqs[r].pc = "body"
  /\ reqs[r].held = 0 => body = [json |-> "invalid"]
  /\ reqs' = [reqs EXCEPT ![r].pc = "auth", ![r].body = body]
  /\ turn' = r
  /\ UNCHANGED <<srv, sd, run, resp, parsed, enqueued, buffers, errorLog>>
  /\ UNCHANGED <<authVars, envVars>>

ReqAuthWith(r, timestamp, signature, nowMs) ==
  /\ turn = r
  /\ reqs[r].pc = "auth"
  /\ LET st == authStatus(webhookSecret, reqs[r].body, timestamp, signature, nowMs) IN
     IF st = 401
     THEN /\ resp' = [resp EXCEPT ![r] = 401]
          /\ reqs' = [reqs EXCEPT ![r].pc = "rejected", ![r].ts = timestamp,
                                  ![r].sig = signature, ![r].now = nowMs]
     ELSE /\ reqs' = [reqs EXCEPT ![r].pc = "ack", ![r].ts = timestamp,
                                  ![r].sig = signature, ![r].now = nowMs]
          /\ UNCHANGED resp
  /\ UNCHANGED <<srv, sd, run, turn, parsed, enqueued, buffers, errorLog>>
  /\ UNCHANGED <<authVars, envVars>>

ReqAuth(r) ==
  /\ turn = r
  /\ reqs[r].pc = "auth"
  /\ IF webhookSecret # <<>>
     THEN \E h \in HeaderCases(reqs[r].body) : ReqAuthWith(r, h.ts, h.sig, h.now)
     ELSE ReqAuthWith(r, NoStr, NoStr, 0)

\* lines 355-357, 361-363: return after the 401
ReqRejected(r) ==
  /\ turn = r
  /\ reqs[r].pc = "rejected"
  /\ reqs' = [reqs EXCEPT ![r] = DoneReq]
  /\ turn' = 0
  /\ UNCHANGED <<srv, sd, run, resp, parsed, enqueued, buffers, errorLog>>
  /\ UNCHANGED <<authVars, envVars>>

\* Variant of ReqAck that goes on to the parsing without writing the response
ReqAck_deferred(r) ==
  /\ turn = r
  /\ reqs[r].pc = "ack"
  /\ reqs' = [reqs EXCEPT ![r].pc = "parse", ![r].ts = NoStr,
                          ![r].sig = NoStr, ![r].now = 0]
  /\ UNCHANGED <<srv, sd, run, turn, resp, parsed, enqueued, buffers, errorLog>>
  /\ UNCHANGED <<authVars, envVars>>

\* lines 367-368
ReqAck(r) ==
  /\ turn = r
  /\ reqs[r].pc = "ack"
  /\ resp' = [resp EXCEPT ![r] = 200]
  /\ reqs' = [reqs EXCEPT ![r].pc = "parse", ![r].ts = NoStr,
                          ![r].sig = NoStr, ![r].now = 0]
  /\ UNCHANGED <<srv, sd, run, turn, parsed, enqueued, buffers, errorLog>>
  /\ UNCHANGED <<authVars, envVars>>

\* lines 370-387: JSON.parse and the dispatch on event_type
ReqParse(r) ==
  /\ turn = r
  /\ reqs[r].pc = "parse"
  /\ parsed' = parsed \cup {r}
  /\ LET body == reqs[r].body IN
     IF body.json # "object"
     THEN \* SyntaxError, or TypeError reading event_type of null
          /\ errorLog' = errorLog \cup {<<"parse", r>>}
          /\ reqs' = [reqs EXCEPT ![r] = DoneReq]
          /\ turn' = 0
     ELSE IF body.event_type = "message.received"
     THEN /\ reqs' = [reqs EXCEPT ![r].pc = "enqueue"]
          /\ UNCHANGED <<errorLog, turn>>
     ELSE /\ reqs' = [reqs EXCEPT ![r] = DoneReq]
          /\ turn' = 0
          /\ UNCHANGED errorLog
  /\ UNCHANGED <<srv, sd, run, resp, enqueued, buffers>>
  /\ UNCHANGED <<authVars, envVars>>

\* ------------------------------------------------------ inbound debouncer
NoKey == <<>>

\* lines 100-106
buildKey(entry) ==
  LET sender == IF entry.event.from = NoStr THEN NoStr ELSE Trim(entry.event.from)
  IN IF ~Truthy(sender) THEN NoKey
     ELSE <<accountId, entry.event.chat_id, sender>>

\* rt.channel.text.hasControlCommand: the text starts a control command
hasControlCommand(text) ==
  LET t == Trim(text) IN t # <<>> /\ Head(t) = "/"

\* Variant of shouldDebounce without the test of lines 111-113
shouldDebounce_noBlankTest(entry) ==
  ~hasControlCommand(extractTextContent(entry.event.parts))

\* lines 107-115
shouldDebounce(entry) ==
  LET text == extractTextContent(entry.event.parts)
  IN IF Trim(text) = <<>> THEN FALSE ELSE ~hasControlCommand(text)

\* Variant of onFlushEvent that hands on the last entry alone
onFlushEvent_lastOnly(entries) == entries[Len(entries)].event

\* lines 116-139: the event onFlush hands to handleMessage
onFlushEvent(entries) ==
  LET last == entries[Len(entries)] IN
  IF Len(entries) = 1 THEN last.event
  ELSE LET texts == [i \in 1..Len(entries) |-> extractTextContent(entries[i].event.parts)]
           combinedText == JoinLines(SelectSeq(texts, NonEmptyStr))
       IN [last.event EXCEPT !.parts = <<TextPart(combinedText)>>]

StartExec(data) == [NoExec EXCEPT !.pc = "start", !.data = data, !.id = data.id]

HasBuffer(key) == \E b \in buffers : b.key = key
BufferOf(key) == CHOOSE b \in buffers : b.key = key

\* line 374 and createInboundDebouncer's enqueue: no key drops the entry, an
\* entry that must not wait is flushed at once on its own, any other joins
\* the pending batch of its key and restarts the key's timer.
ReqEnqueue(r) ==
  /\ turn = r
  /\ reqs[r].pc = "enqueue"
  /\ enqueued' = enqueued \cup {r}
  /\ reqs' = [reqs EXCEPT ![r] = DoneReq]
  /\ LET entry == [event |-> [reqs[r].body.data EXCEPT !.id = r]]
         key == buildKey(entry)
     IN IF key = NoKey
        THEN /\ turn' = 0
             /\ UNCHANGED <<buffers, hm>>
        ELSE IF ~shouldDebounce(entry)
        THEN /\ hm' = [hm EXCEPT ![r] = StartExec(onFlushEvent(<<entry>>))]
             /\ UNCHANGED <<buffers, turn>>
        ELSE /\ buffers' =
                  IF HasBuffer(key)
                  THEN (buffers \ {BufferOf(key)})
                       \cup {[key |-> key, items |-> Append(BufferOf(key).items, entry)]}
                  ELSE buffers \cup {[key |-> key, items |-> <<entry>>]}
             /\ turn' = 0
             /\ UNCHANGED hm
  /\ UNCHANGED <<srv, sd, run, resp, parsed, errorLog>>
  /\ UNCHANGED <<outbound, storeReads, matched, upserts, dispatched, envVars>>

\* The timer of a key expires: the batch leaves the debouncer and onFlush runs.
TimerFire(b) ==
  /\ turn = 0
  /\ b \in buffers
  /\ buffers' = buffers \ {b}
  /\ LET data == onFlushEvent(b.items) IN
     /\ hm' = [hm EXCEPT ![data.id] = StartExec(data)]
     /\ turn' = data.id
  /\ UNCHANGED <<srv, sd, run, ingressVars, errorLog>>
  /\ UNCHANGED <<outbound, storeReads, matched, upserts, dispatched, envVars>>

\* ------------------------------------------------------- outbound client
MAX_RETRIES == 2
RETRY_DELAY_MS == 500
MaxDelayMs == 10000

RECURSIVE Pow2(_)
Pow2(n) == IF n <= 0 THEN 1 ELSE 2 * Pow2(n - 1)

\* A response of the platform API; status 0 stands for fetch rejecting
\* (a network error).
Response(status, retryAfter) == [status |-> status, retryAfter |-> retryAfter]
NetworkError == Response(0, NoStr)
IsOk(response) == response.status >= 200 /\ response.status <= 299

\* Variant of shouldRetry with one more round
shouldRetry_oneMore(response, attempt, retries) ==
  response.status = 429 /\ attempt <= retries

\* probe.ts line 63: go round again?
shouldRetry(response, attempt, retries) ==
  response.status = 429 /\ attempt < retries

\* Variant of retryDelay without the 10-second cap of line 66
retryDelay_uncapped(response, attempt) ==
  LET n == Number(response.retryAfter)
      retryAfterMs == IF n.nan THEN 0 ELSE n.milli
  IN IF retryAfterMs > 0 THEN retryAfterMs ELSE RETRY_DELAY_MS * Pow2(attempt)

\* probe.ts lines 64-66: the wait before the next attempt, in ms
retryDelay(response, attempt) ==
  LET n == Number(response.retryAfter)
      retryAfterMs == IF n.nan THEN 0 ELSE n.milli
      delay == IF retryAfterMs > 0 THEN retryAfterMs
               ELSE RETRY_DELAY_MS * Pow2(attempt)
  IN Min(delay, MaxDelayMs)

\* ---------------------------------------------------------- handleMessage
SenderOf(data) == IF data.from = NoStr THEN NoStr ELSE Trim(data.from)

\* lines 146-167: does the message get past the early returns?
eligible(data) ==
  LET sender == SenderOf(data)
      text == extractTextContent(data.parts)
      media == extractMediaUrls(data.parts)
  IN /\ Truthy(sender)
     /\ ~data.is_from_me
     /\ ~(fromPhone # Undefined /\ fromPhone # "" /\ data.recipient_phone # fromPhone)
     /\ ~(Trim(text) = <<>> /\ Len(media) = 0)

Call(kind, data) ==
  [kind |-> kind, id |-> data.id, chat |-> data.chat_id, sender |-> SenderOf(data)]
\* lines 169-170: the platform calls made before the store is read
earlyCalls(data) == {Call("read", data), Call("typing", data)}

\* Variant of effectiveDmAllowFrom that leaves the store out
effectiveDmAllowFrom_staticOnly(storeAllowFrom) ==
  TrimAndFilter(Dedup(allowFrom))

\* lines 173-175
effectiveDmAllowFrom(storeAllowFrom) ==
  TrimAndFilter(Dedup(allowFrom \o storeAllowFrom))

\* Variant of dmAuthorized that takes an empty allowlist as "everybody"
dmAuthorized_emptyAllowsAll(effective, sender) ==
  LET dmHasWildcard == Star \in SeqRange(effective) IN
  IF dmPolicy = "open" THEN TRUE
  ELSE dmHasWildcard \/ Len(effective) = 0
       \/ isAllowedLinqSender(effective, sender)

\* Variant of dmAuthorized without the shortcut of the open policy
dmAuthorized_noOpenShortcut(effective, sender) ==
  LET dmHasWildcard == Star \in SeqRange(effective) IN
  dmHasWildcard \/ (Len(effective) > 0 /\ isAllowedLinqSender(effective, sender))

\* lines 177-182
dmAuthorized(effective, sender) ==
  LET dmHasWildcard == Star \in SeqRange(effective) IN
  IF dmPolicy = "open" THEN TRUE
  ELSE dmHasWildcard \/ (Len(effective) > 0 /\ isAllowedLinqSender(effective, sender))

\* line 182: is isAllowedLinqSender evaluated (no short circuit before it)?
evaluatesMatch(effective) ==
  dmPolicy # "open" /\ Star \notin SeqRange(effective) /\ Len(effective) > 0

\* Variant of gate that looks at the disabled policy only for the
\* unauthorized
gate_disabledAfter(effective, sender) ==
  IF ~dmAuthorized(effective, sender)
  THEN IF dmPolicy = "disabled" THEN "return"
       ELSE IF dmPolicy = "pairing" THEN "pairing" ELSE "blocked"
  ELSE "dispatch"

\* lines 184-214: "return", "pairing", "blocked" or "dispatch"
gate(effective, sender) ==
  IF dmPolicy = "disabled" THEN "return"
  ELSE IF ~dmAuthorized(effective, sender)
       THEN IF dmPolicy = "pairing" THEN "pairing" ELSE "blocked"
       ELSE "dispatch"

\* lines 145-172: the synchronous head of handleMessage, up to the store read
HM_Start(e) ==
  /\ turn = e
  /\ hm[e].pc = "start"
  /\ turn' = 0
  /\ IF eligible(hm[e].data)
     THEN /\ outbound' = outbound \cup earlyCalls(hm[e].data)
          /\ storeReads' = storeReads \cup {e}
          /\ hm' = [hm EXCEPT ![e].pc = "storeRead"]
     ELSE /\ hm' = [hm EXCEPT ![e] = DoneExec]
          /\ UNCHANGED <<outbound, storeReads>>
  /\ UNCHANGED <<srv, sd, run, ingressVars, buffers, errorLog>>
  /\ UNCHANGED <<matched, upserts, dispatched, envVars>>

\* lines 172-214 and 216-292: readAllowFromStore resolves (or rejects, and
\* the catch gives []), the gate decides, and the next call is made
HM_Decide(e, readOk) ==
  /\ turn = 0
  /\ hm[e].pc = "storeRead"
  /\ LET storeAllowFrom == IF readOk THEN SetToSeq(store) ELSE <<>>
         effective == effectiveDmAllowFrom(storeAllowFrom)
         sender == SenderOf(hm[e].data)
         outcome == gate(effective, sender)
     IN /\ matched' = IF evaluatesMatch(effective) THEN matched \cup {e} ELSE matched
        /\ IF outcome = "pairing"
           THEN /\ upserts' = upserts \cup {e}
                /\ hm' = [hm EXCEPT ![e].pc = "upsert", ![e].data.parts = <<>>,
                                    ![e].readOk = readOk]
           ELSE IF outcome = "dispatch"
           THEN /\ hm' = [hm EXCEPT ![e].pc = "record", ![e].allow = effective,
                                    ![e].readOk = readOk]
                /\ UNCHANGED upserts
           ELSE /\ hm' = [hm EXCEPT ![e] = DoneExec]
                /\ UNCHANGED upserts
  /\ UNCHANGED <<srv, sd, run, turn, ingressVars, buffers, errorLog>>
  /\ UNCHANGED <<outbound, storeReads, dispatched, envVars>>

\* The responses the platform API gives in the monitor's runs.
MonitorResponses ==
  {Response(200, NoStr), Response(429, NoStr), Response(500, NoStr), NetworkError}

HasRequest(id) == \E p \in pairing : p.id = id
RequestOf(id) == CHOOSE p \in pairing : p.id = id

\* rt.channel.pairing.upsertPairingRequest takes effect: the first request
\* of a sender is inserted with a fresh code (created), a later one reuses it
HM_Upsert(e) ==
  /\ turn = 0
  /\ hm[e].pc = "upsert"
  /\ LET sender == SenderOf(hm[e].data) IN
     IF HasRequest(sender)
     THEN /\ hm' = [hm EXCEPT ![e].pc = "upserted", ![e].created = FALSE,
                              ![e].readOk = FALSE,
                              ![e].code = RequestOf(sender).code]
          /\ UNCHANGED <<pairing, codes>>
     ELSE /\ codes' = codes + 1
          /\ pairing' = pairing \cup {[id |-> sender, code |-> codes + 1]}
          /\ hm' = [hm EXCEPT ![e].pc = "upserted", ![e].created = TRUE,
                              ![e].readOk = FALSE,
                              ![e].code = codes + 1]
  /\ UNCHANGED <<srv, sd, run, turn, ingressVars, buffers, errorLog>>
  /\ UNCHANGED <<outbound, storeReads, matched, upserts, dispatched>>
  /\ UNCHANGED <<store, storeWrites, approved>>

\* upsertPairingRequest rejects: handleMessage rejects, the flush reports it
HM_UpsertFail(e) ==
  /\ turn = 0
  /\ hm[e].pc = "upsert"
  /\ hm' = [hm EXCEPT ![e] = DoneExec]
  /\ errorLog' = errorLog \cup {<<"flush", e>>}
  /\ UNCHANGED <<srv, sd, run, turn, ingressVars, buffers>>
  /\ UNCHANGED <<outbound, storeReads, matched, upserts, dispatched, envVars>>

\* Variant of repliesToPairing that answers every unauthorized message
repliesToPairing_always(created) == TRUE

\* line 194: is the pairing reply sent?
repliesToPairing(created) == created

\* lines 194-213: after the upsert; sendMessageLinq issues its first fetch
HM_AfterUpsert(e) ==
  /\ turn = 0
  /\ hm[e].pc = "upserted"
  /\ IF repliesToPairing(hm[e].created)
     THEN /\ outbound' = outbound \cup {Call("pairingMsg", hm[e].data)}
          /\ hm' = [hm EXCEPT ![e].pc = "pairingSend", ![e].attempt = 0]
     ELSE /\ hm' = [hm EXCEPT ![e] = DoneExec]
          /\ UNCHANGED outbound
  /\ UNCHANGED <<srv, sd, run, turn, ingressVars, buffers, errorLog>>
  /\ UNCHANGED <<storeReads, matched, upserts, dispatched, envVars>>

\* Variant of HM_PairingFetch without the try of lines 196-208: a failure
\* of the send rejects handleMessage, and the flush reports it
HM_PairingFetch_uncaught(e, response) ==
  /\ turn = 0
  /\ hm[e].pc = "pairingSend"
  /\ IF shouldRetry(response, hm[e].attempt, MAX_RETRIES)
     THEN /\ hm' = [hm EXCEPT ![e].pc = "pairingBackoff"]
          /\ UNCHANGED errorLog
     ELSE IF IsOk(response)
     THEN /\ hm' = [hm EXCEPT ![e] = DoneExec]
          /\ UNCHANGED errorLog
     ELSE /\ hm' = [hm EXCEPT ![e] = FailedReply(hm[e])]
          /\ errorLog' = errorLog \cup {<<"flush", e>>}
  /\ UNCHANGED <<srv, sd, run, turn, ingressVars, buffers>>
  /\ UNCHANGED <<outbound, storeReads, matched, upserts, dispatched, envVars>>

\* probe.ts lines 61-70 and 121-124 inside the try of lines 196-208: a
\* response arrives; a failure of the send is caught and logged verbosely
HM_PairingFetch(e, response) ==
  /\ turn = 0
  /\ hm[e].pc = "pairingSend"
  /\ IF shouldRetry(response, hm[e].attempt, MAX_RETRIES)
     THEN hm' = [hm EXCEPT ![e].pc = "pairingBackoff"]
     ELSE IF IsOk(response)
     THEN hm' = [hm EXCEPT ![e] = DoneExec]
     ELSE hm' = [hm EXCEPT ![e] = FailedReply(hm[e])]
  /\ UNCHANGED <<srv, sd, run, turn, ingressVars, buffers, errorLog>>
  /\ UNCHANGED <<outbound, storeReads, matched, upserts, dispatched, envVars>>

\* probe.ts lines 66-67: the wait is over, the next attempt is made
HM_PairingRetry(e) ==
  /\ turn = 0
  /\ hm[e].pc = "pairingBackoff"
  /\ hm' = [hm EXCEPT ![e].pc = "pairingSend", ![e].attempt = hm[e].attempt + 1]
  /\ UNCHANGED <<srv, sd, run, turn, ingressVars, buffers, errorLog>>
  /\ UNCHANGED <<outbound, storeReads, matched, upserts, dispatched, envVars>>

\* lines 279-319: recordInboundSession resolves and the agent is called,
\* or it rejects and handleMessage rejects
HM_Recorded(e, ok) ==
  /\ turn = 0
  /\ hm[e].pc = "record"
  /\ IF ok
     THEN /\ dispatched' = dispatched \cup {e}
          /\ hm' = [hm EXCEPT ![e].pc = "dispatch", ![e].data.parts = <<>>,
                              ![e].allow = <<>>, ![e].readOk = FALSE]
          /\ UNCHANGED errorLog
     ELSE /\ hm' = [hm EXCEPT ![e] = DoneExec]
          /\ errorLog' = errorLog \cup {<<"flush", e>>}
          /\ UNCHANGED dispatched
  /\ UNCHANGED <<srv, sd, run, turn, ingressVars, buffers>>
  /\ UNCHANGED <<outbound, storeReads, matched, upserts, envVars>>

\* lines 310-318: the agent delivers a reply with text
HM_Deliver(e) ==
  /\ turn = 0
  /\ hm[e].pc = "dispatch"
  /\ Call("replyMsg", hm[e].data) \notin outbound
  /\ outbound' = outbound \cup {Call("replyMsg", hm[e].data)}
  /\ hm' = [hm EXCEPT ![e].pc = "deliverSend", ![e].attempt = 0]
  /\ UNCHANGED <<srv, sd, run, turn, ingressVars, buffers, errorLog>>
  /\ UNCHANGED <<storeReads, matched, upserts, dispatched, envVars>>

\* probe.ts lines 61-70 and 121-124 under deliver: the send returns to the
\* agent, whether with a result or an error
HM_DeliverFetch(e, response) ==
  /\ turn = 0
  /\ hm[e].pc = "deliverSend"
  /\ IF shouldRetry(response, hm[e].attempt, MAX_RETRIES)
     THEN hm' = [hm EXCEPT ![e].pc = "deliverBackoff"]
     ELSE hm' = [hm EXCEPT ![e].pc = "dispatch", ![e].attempt = 0]
  /\ UNCHANGED <<srv, sd, run, turn, ingressVars, buffers, errorLog>>
  /\ UNCHANGED <<outbound, storeReads, matched, upserts, dispatched, envVars>>

HM_DeliverRetry(e) ==
  /\ turn = 0
  /\ hm[e].pc = "deliverBackoff"
  /\ hm' = [hm EXCEPT ![e].pc = "deliverSend", ![e].attempt = hm[e].attempt + 1]
  /\ UNCHANGED <<srv, sd, run, turn, ingressVars, buffers, errorLog>>
  /\ UNCHANGED <<outbound, storeReads, matched, upserts, dispatched, envVars>>

\* Variant of HM_DispatchEnd in which a failed flush clears the debouncer
HM_DispatchEnd_dropsPending(e, ok) ==
  /\ turn = 0
  /\ hm[e].pc = "dispatch"
  /\ hm' = [hm EXCEPT ![e] = DoneExec]
  /\ errorLog' = IF ok THEN errorLog ELSE errorLog \cup {<<"flush", e>>}
  /\ buffers' = IF ok THEN buffers ELSE {}
  /\ UNCHANGED <<srv, sd, run, turn, ingressVars>>
  /\ UNCHANGED <<outbound, storeReads, matched, upserts, dispatched, envVars>>

\* line 305: dispatchReplyFromConfig resolves, or rejects
HM_DispatchEnd(e, ok) ==
  /\ turn = 0
  /\ hm[e].pc = "dispatch"
  /\ hm' = [hm EXCEPT ![e] = DoneExec]
  /\ errorLog' = IF ok THEN errorLog ELSE errorLog \cup {<<"flush", e>>}
  /\ UNCHANGED <<srv, sd, run, turn, ingressVars, buffers>>
  /\ UNCHANGED <<outbound, storeReads, matched, upserts, dispatched, envVars>>

\* ------------------------------------------- the pairing collaborator
StoreEntries == {SenderA, <<" ", "*">>}

\* A write to the store is seen by the monitor only through a read of the
\* store, an approval also through an upsert: the writes are taken at the
\* moments one of these is pending.
ReadPending == \E e \in Requests : hm[e].pc = "storeRead"
UpsertPending == \E e \in Requests : hm[e].pc = "upsert"

\* The operator approves a pending request: the sender joins the store
\* and the request is resolved.
StoreApprove(p) ==
  /\ turn = 0
  /\ storeWrites < MaxStoreWrites
  /\ ReadPending \/ UpsertPending
  /\ p \in pairing
  /\ store' = store \cup {p.id}
  /\ pairing' = pairing \ {p}
  /\ approved' = approved \cup {p.id}
  /\ storeWrites' = storeWrites + 1
  /\ UNCHANGED <<srv, sd, run, turn, ingressVars, buffers, errorLog, authVars, codes>>

StoreAdd(entry) ==
  /\ turn = 0
  /\ storeWrites < MaxStoreWrites
  /\ ReadPending
  /\ entry \notin store
  /\ store' = store \cup {entry}
  /\ storeWrites' = storeWrites + 1
  /\ UNCHANGED <<srv, sd, run, turn, ingressVars, buffers, errorLog, authVars>>
  /\ UNCHANGED <<pairing, codes, approved>>

StoreRemove(entry) ==
  /\ turn = 0
  /\ storeWrites < MaxStoreWrites
  /\ ReadPending
  /\ entry \in store
  /\ store' = store \ {entry}
  /\ storeWrites' = storeWrites + 1
  /\ UNCHANGED <<srv, sd, run, turn, ingressVars, buffers, errorLog, authVars>>
  /\ UNCHANGED <<pairing, codes, approved>>

\* ------------------------------------------------------- specification
Next ==
  \/ \E r \in Requests, method \in Methods, path \in Paths : ReqArrive(r, method, path)
  \/ \E r \in Requests, n \in ChunkSizes : ReqChunk(r, n)
  \/ \E r \in Requests, body \in posted \cup {[json |-> "invalid"]} : ReqEnd(r, body)
  \/ \E r \in Requests : ReqAuth(r)
  \/ \E r \in Requests : ReqRejected(r)
  \/ \E r \in Requests : ReqAck(r)
  \/ \E r \in Requests : ReqParse(r)
  \/ \E r \in Requests : ReqEnqueue(r)
  \/ \E b \in buffers : TimerFire(b)
  \/ \E e \in Requests : HM_Start(e)
  \/ \E e \in Requests, readOk \in BOOLEAN : HM_Decide(e, readOk)
  \/ \E e \in Requests : HM_Upsert(e)
  \/ \E e \in Requests : HM_UpsertFail(e)
  \/ \E e \in Requests : HM_AfterUpsert(e)
  \/ \E e \in Requests, response \in MonitorResponses : HM_PairingFetch(e, response)
  \/ \E e \in Requests : HM_PairingRetry(e)
  \/ \E e \in Requests, ok \in BOOLEAN : HM_Recorded(e, ok)
  \/ \E e \in Requests : HM_Deliver(e)
  \/ \E e \in Requests, response \in MonitorResponses : HM_DeliverFetch(e, response)
  \/ \E e \in Requests : HM_DeliverRetry(e)
  \/ \E e \in Requests, ok \in BOOLEAN : HM_DispatchEnd(e, ok)
  \/ \E p \in pairing : StoreApprove(p)
  \/ \E entry \in StoreEntries : StoreAdd(entry)
  \/ \E entry \in store : StoreRemove(entry)

Spec == Init /\ [][Next]_vars

\* ------------------------------------------- the outbound client alone
monitorVars == <<srv, run, turn, reqs, resp, parsed, enqueued, buffers, hm, store,
                 pairing, codes, storeWrites, approved, outbound, storeReads,
                 matched, upserts, dispatched, errorLog>>

OptTokens == {NoStr, Blank, <<"t">>}
AccountTokens == {NoStr, <<"u">>}
Texts == {<<>>, Blank, Hi}
MediaUrls == {NoStr, Blank, <<" ", "u">>}
RetryAfterHeaders ==
  {NoStr, <<>>, <<"1">>, <<"0">>, <<"-", "5">>, <<"x">>, <<"2", "0">>, <<"1", ".", "5">>}

\* The responses of the platform API: a success, errors, and 429 with
\* every Retry-After header.
SendResponses ==
  {Response(200, NoStr), Response(204, NoStr), Response(299, NoStr),
   Response(300, NoStr), Response(500, NoStr), Response(404, <<"1">>),
   NetworkError}
  \cup {Response(429, h) : h \in RetryAfterHeaders}

\* The bodies of an error response: response.text() rejects (NoStr), or
\* gives a text of up to one character more than is quoted
ErrorTextLimit == 200
Chars(n) == [i \in 1..n |-> "x"]
ErrorBodies == {NoStr, <<>>, Chars(ErrorTextLimit), Chars(ErrorTextLimit + 1)}

\* String.prototype.slice(0, n)
SliceTo(s, n) == SubSeq(s, 1, Min(Len(s), n))

OptTrim(s) == IF s = NoStr THEN NoStr ELSE Trim(s)

\* probe.ts lines 88-103: the token and the parts of a send; the error
\* raised before any fetch, "" when there is none
resolveToken(optToken, accountToken) ==
  IF Truthy(OptTrim(optToken)) THEN OptTrim(optToken) ELSE accountToken

\* Variant of sendParts that puts the media part first
sendParts_mediaFirst(text, mediaUrl) ==
  (IF Truthy(OptTrim(mediaUrl))
   THEN <<[type |-> "media", url |-> Trim(mediaUrl)]>> ELSE <<>>)
  \o (IF Truthy(text) THEN <<[type |-> "text", value |-> text]>> ELSE <<>>)

sendParts(text, mediaUrl) ==
  (IF Truthy(text) THEN <<[type |-> "text", value |-> text]>> ELSE <<>>)
  \o (IF Truthy(OptTrim(mediaUrl))
      THEN <<[type |-> "media", url |-> Trim(mediaUrl)]>> ELSE <<>>)

sendPrecheck(optToken, accountToken, text, mediaUrl) ==
  IF ~Truthy(resolveToken(optToken, accountToken)) THEN "Linq API token not configured"
  ELSE IF Len(sendParts(text, mediaUrl)) = 0 THEN "Linq send requires text or media"
  ELSE ""

SendArgs(optToken, accountToken, text, mediaUrl) ==
  [kind |-> "send", optToken |-> optToken, accountToken |-> accountToken,
   text |-> text, mediaUrl |-> mediaUrl]

\* probe.ts lines 83-119: sendMessageLinq up to its first fetch
SendCall(optToken, accountToken, text, mediaUrl) ==
  /\ sd.pc = "idle"
  /\ LET err == sendPrecheck(optToken, accountToken, text, mediaUrl) IN
     IF err # ""
     THEN sd' = [sd EXCEPT !.pc = "done", !.op = "send",
                           !.args = SendArgs(optToken, accountToken, text, mediaUrl),
                           !.result = [kind |-> "error", message |-> err, status |-> 0]]
     ELSE sd' = [sd EXCEPT !.pc = "fetching", !.op = "send", !.fetches = 1,
                           !.args = SendArgs(optToken, accountToken, text, mediaUrl),
                           !.parts = sendParts(text, mediaUrl)]
  /\ UNCHANGED monitorVars

\* probe.ts lines 121-133: what sendMessageLinq makes of the response
\* fetchWithRetry returned
errorText(errorBody) ==
  IF errorBody = NoStr THEN <<>> ELSE SliceTo(errorBody, ErrorTextLimit)

sendResult(response, errorBody) ==
  IF response = NetworkError
  THEN [kind |-> "error", message |-> "fetch failed", status |-> 0]
  ELSE IF ~IsOk(response)
  THEN [kind |-> "error", message |-> "Linq API error", status |-> response.status,
        text |-> errorText(errorBody)]
  ELSE [kind |-> "ok", message |-> "", status |-> response.status]

\* probe.ts lines 61-70: a response arrives in fetchWithRetry
SendFetch(response, errorBody) ==
  /\ sd.pc = "fetching"
  /\ sd.op = "send"
  /\ IF response # NetworkError /\ shouldRetry(response, sd.attempt, MAX_RETRIES)
     THEN sd' = [sd EXCEPT !.pc = "waiting", !.log = Append(sd.log, response),
                           !.waits = Append(sd.waits, retryDelay(response, sd.attempt))]
     ELSE sd' = [sd EXCEPT !.pc = "done", !.log = Append(sd.log, response),
                           !.body = IF response = NetworkError \/ IsOk(response)
                                    THEN NoStr ELSE errorBody,
                           !.result = sendResult(response, errorBody)]
  /\ UNCHANGED monitorVars

\* probe.ts lines 66-67, 61-62: the timer fires, the loop goes round
SendWake ==
  /\ sd.pc = "waiting"
  /\ sd' = [sd EXCEPT !.pc = "fetching", !.attempt = sd.attempt + 1,
                      !.fetches = sd.fetches + 1]
  /\ UNCHANGED monitorVars

FireAndForgetOps == {"startTyping", "stopTyping", "markAsRead", "sendReaction"}

\* probe.ts lines 149-185: the four calls of fireAndForget
FFCall(op) ==
  /\ sd.pc = "idle"
  /\ sd' = [sd EXCEPT !.pc = "fetching", !.op = op, !.fetches = 1]
  /\ UNCHANGED monitorVars

\* Variant of fireAndForgetResult that takes any response for a success
fireAndForgetResult_anyResponse(response) == response # NetworkError

\* probe.ts lines 140-147
fireAndForgetResult(response) ==
  IF response = NetworkError THEN FALSE ELSE IsOk(response)

FFFetch(response) ==
  /\ sd.pc = "fetching"
  /\ sd.op \in FireAndForgetOps
  /\ sd' = [sd EXCEPT !.pc = "done", !.log = Append(sd.log, response),
                      !.result = [kind |-> "bool", message |-> "", status |-> 0,
                                  value |-> fireAndForgetResult(response)]]
  /\ UNCHANGED monitorVars

InitSend ==
  /\ run = 1
  /\ srv = Serving("none")
  /\ sd = NoCall
  /\ MonitorInit

NextSend ==
  \/ \E t \in OptTokens, a \in AccountTokens, text \in Texts, m \in MediaUrls :
       SendCall(t, a, text, m)
  \/ \E response \in SendResponses, errorBody \in ErrorBodies :
       SendFetch(response, errorBody)
  \/ SendWake
  \/ \E op \in FireAndForgetOps : FFCall(op)
  \/ \E response \in SendResponses : FFFetch(response)

SpecSend == InitSend /\ [][NextSend]_vars

\* A fetch settles and a timer fires in the end.
SpecSendFair == SpecSend /\ WF_vars(NextSend)

\* ------------------------------------------------- the listener's life
handlerVars == <<sd, run, turn, reqs, resp, parsed, enqueued, buffers, hm,
                 store, pairing, codes, storeWrites, approved, outbound,
                 storeReads, matched, upserts, dispatched, errorLog>>

Signals == {"none", "idle", "aborted"}

\* A connection is open from the arrival of its request to its response.
Open(r) == reqs[r].pc # "new" /\ resp[r] = 0

\* server.close(): a listening server stops accepting connections
serverClose(server) == IF server = "listening" THEN "closing" ELSE server

\* Variant of closeIfAborted that does not look at the signal
closeIfAborted_never(signal, server) == server

\* lines 409-411
closeIfAborted(signal, server) ==
  IF signal = "aborted" THEN serverClose(server) ELSE server

\* lines 392-397 and 401-412: the server listens, the listen promise
\* resolves and the call goes on to wait for close
Listening ==
  /\ turn = 0
  /\ srv.pc = "listen"
  /\ srv' = [srv EXCEPT !.pc = "wait", !.onAbort = srv.signal # "none",
                        !.server = closeIfAborted(srv.signal, "listening")]
  /\ UNCHANGED handlerVars

\* line 398: the server cannot listen and the call rejects
ListenError ==
  /\ turn = 0
  /\ srv.pc = "listen"
  /\ srv' = [srv EXCEPT !.pc = "rejected", !.server = "failed"]
  /\ UNCHANGED handlerVars

\* The owner aborts the signal; a registered onAbort (lines 403-406) runs,
\* once.
Abort ==
  /\ turn = 0
  /\ srv.signal = "idle"
  /\ srv' = [srv EXCEPT !.signal = "aborted", !.abortedAt = srv.pc,
                        !.onAbort = FALSE,
                        !.server = IF srv.onAbort THEN serverClose(srv.server)
                                   ELSE srv.server]
  /\ UNCHANGED handlerVars

\* The server has stopped listening and its last connection has ended: it
\* emits close, the promise of line 407 or 415 resolves, line 413 runs and
\* the call resolves.
EmitClose ==
  /\ turn = 0
  /\ srv.server = "closing"
  /\ \A r \in Requests : ~Open(r)
  /\ srv' = [srv EXCEPT !.pc = "resolved", !.server = "closed",
                        !.onAbort = FALSE]
  /\ UNCHANGED handlerVars

\* The request handler's steps
HandlerStep ==
  \/ \E r \in Requests, n \in ChunkSizes : ReqChunk(r, n)
  \/ \E r \in Requests, body \in posted \cup {[json |-> "invalid"]} : ReqEnd(r, body)
  \/ \E r \in Requests : ReqAuth(r)
  \/ \E r \in Requests : ReqRejected(r)
  \/ \E r \in Requests : ReqAck(r)
  \/ \E r \in Requests : ReqParse(r)

\* The call from its start, with or without a signal, aborted or not;
\* the events posted are those that end in the handler.
InitShutdown ==
  /\ run = Len(Runs)
  /\ srv \in {Starting(signal) : signal \in Signals}
  /\ sd = NoCall
  /\ MonitorInit

NextShutdown ==
  \/ Listening
  \/ ListenError
  \/ Abort
  \/ EmitClose
  \/ \E r \in Requests, method \in Methods, path \in Paths : ReqArrive(r, method, path)
  \/ \E r \in Requests, n \in ChunkSizes : ReqChunk(r, n)
  \/ \E r \in Requests, body \in posted \cup {[json |-> "invalid"]} : ReqEnd(r, body)
  \/ \E r \in Requests : ReqAuth(r)
  \/ \E r \in Requests : ReqRejected(r)
  \/ \E r \in Requests : ReqAck(r)
  \/ \E r \in Requests : ReqParse(r)

SpecShutdown == InitShutdown /\ [][NextShutdown]_vars

\* A request under way comes to its end (the client sends it on, and the
\* handler's callbacks run), and the server emits the events it owes.
SpecShutdownFair ==
  SpecShutdown /\ WF_vars(HandlerStep) /\ WF_vars(EmitClose)

\* ------------------------------------------------------------ properties
\* The trimmed, non-empty entries of the static allowlist and of a store
StaticEntries ==
  IF linqCfg.allowFrom.defined THEN SeqRange(linqCfg.allowFrom.items) ELSE {}

Merged(storeSet) == {Trim(x) : x \in StaticEntries \cup storeSet} \ {<<>>}

ListAdmits(entries, sender) ==
  \/ Star \in entries
  \/ \E x \in entries : NormalizeId(x) = NormalizeId(sender)

C1_Step ==
  \A e \in Requests :
    /\ (hm[e].pc # "record" /\ hm'[e].pc = "record") =>
         /\ hm[e].pc = "storeRead"
         /\ \/ dmPolicy = "open"
            \/ /\ dmPolicy # "disabled"
               /\ ListAdmits(Merged(store), SenderOf(hm[e].data))
    /\ (e \in dispatched' /\ e \notin dispatched) => hm[e].pc = "record"

\* C1: a message reaches the agent only under the open policy, or under a
\* policy other than disabled with a merged allowlist (static entries plus
\* the store as it is when read) that holds "*" or an entry equal to the
\* sender after normalization; and it is handed to the agent by nothing but
\* the execution that this decision let through.
C1_AuthorizationGate == [][C1_Step]_vars

\* a sender reached the agent under the pairing policy, through the list
C1_Witness ==
  /\ dmPolicy = "pairing"
  /\ \E e \in dispatched : hm[e].pc = "dispatch"

C2_Step ==
  \A r \in Requests :
    /\ resp[r] # 0 => resp'[r] = resp[r]
    /\ (r \in parsed' /\ r \notin parsed) => resp[r] = 200
    /\ (r \in enqueued' /\ r \notin enqueued) => resp[r] = 200 /\ r \in parsed
    /\ (hm[r].pc = "none" /\ hm'[r].pc # "none") => resp[r] = 200

\* C2: the parsing and the enqueueing of a request happen only once its
\* response is 200, and a response that was written is never replaced,
\* whatever the parsing, the debouncer or handleMessage do afterwards.
C2_FastAck == [][C2_Step]_vars

\* one request failed in the parsing and another in handleMessage, after
\* both were answered 200
C2_Witness ==
  \E r, q \in Requests :
    /\ <<"parse", r>> \in errorLog
    /\ <<"flush", q>> \in errorLog
    /\ resp[r] = 200 /\ resp[q] = 200

\* Is the timestamp text a plain number of seconds within 300 s of the clock?
Fresh(timestamp, nowMs) ==
  /\ AllDigits(timestamp)
  /\ Abs(nowMs - 1000 * DigitsValue(timestamp)) <= 300000

Accepts(r) ==
  \/ webhookSecret = <<>>
  \/ /\ reqs[r].ts # NoStr /\ reqs[r].ts # <<>>
     /\ reqs[r].sig # NoStr /\ reqs[r].sig # <<>>
     /\ verifyWebhookSignature(webhookSecret, reqs[r].body, reqs[r].ts, reqs[r].sig)
     /\ Fresh(reqs[r].ts, reqs[r].now)

C3_State ==
  \A r \in Requests :
    /\ reqs[r].pc = "ack" => Accepts(r)
    /\ reqs[r].pc = "rejected" => ~Accepts(r) /\ resp[r] = 401
    /\ resp[r] = 401 => r \notin parsed /\ r \notin enqueued /\ hm[r].pc = "none"

C3_Step ==
  \A r \in Requests :
    (reqs[r].pc \in {"auth", "rejected"} /\ reqs'[r].pc \in {"rejected", "done"}) =>
      /\ resp'[r] = 401
      /\ UNCHANGED <<parsed, enqueued, buffers, errorLog, authVars, envVars>>

\* C3: a request that got as far as the authentication is accepted exactly
\* when no secret is configured, or both headers are there, the signature
\* verifies over the raw body and the timestamp is a number within 300 s of
\* the clock; any other is answered 401 and changes nothing else.
C3_WebhookAcceptance == []C3_State /\ [][C3_Step]_vars

\* a well signed request was refused for its age alone
C3_Witness ==
  \E r \in Requests :
    /\ reqs[r].pc = "rejected"
    /\ resp[r] = 401
    /\ reqs[r].ts # <<>> /\ AllDigits(reqs[r].ts)
    /\ verifyWebhookSignature(webhookSecret, reqs[r].body, reqs[r].ts, reqs[r].sig)

C4_State ==
  \A r \in Requests :
    /\ reqs[r].held <= 1048576
    /\ reqs[r].pc \in {"body", "auth", "ack", "rejected", "parse", "enqueue"} =>
         reqs[r].size <= 1048576
    /\ resp[r] = 413 =>
         /\ reqs[r].pc = "done" /\ reqs[r].size > 1048576
         /\ r \notin parsed /\ r \notin enqueued /\ hm[r].pc = "none"

C4_Step ==
  \A r \in Requests :
    resp[r] = 413 => reqs'[r] = reqs[r] /\ resp'[r] = 413 /\ hm'[r] = hm[r]

\* C4: the handler never holds more than 1 MiB of a request's body; a
\* request is answered 413 only when its running size went over 1 MiB (a
\* body of exactly 1 MiB is not), and from then on it is neither
\* authenticated nor parsed nor enqueued.
C4_BodySizeCap == []C4_State /\ [][C4_Step]_vars

\* a body of exactly 1 MiB was acknowledged and another request got 413
C4_Witness ==
  \E r, q \in Requests :
    /\ reqs[r].held = 1048576 /\ resp[r] = 200
    /\ resp[q] = 413

\* The pairing-code messages sent for a sender
PairingReplies(sender) ==
  {o \in outbound : o.kind = "pairingMsg" /\ o.sender = sender}

\* The executions that are between the upsert's answer and the reply
AnsweredCreated(sender) ==
  {e \in Requests : /\ hm[e].pc = "upserted" /\ hm[e].created
                    /\ SenderOf(hm[e].data) = sender}

C5_State ==
  dmPolicy = "pairing" =>
    \A p \in pairing :
      p.id \notin approved =>
        /\ Cardinality(PairingReplies(p.id)) <= 1
        /\ AnsweredCreated(p.id) = {} => Cardinality(PairingReplies(p.id)) = 1

C5_Step ==
  \A o \in outbound' \ outbound :
    o.kind = "pairingMsg" =>
      /\ hm[o.id].pc = "upserted" /\ hm[o.id].created
      /\ o.sender \notin approved => PairingReplies(o.sender) = {}

\* C5: under the pairing policy a sender with an unresolved pairing request,
\* who was never approved, has been sent exactly one pairing-code message once the execution that
\* created the request has gone on, never two, under every interleaving of
\* the executions for that sender; the message is sent only by the
\* execution to which upsertPairingRequest answered created = true.
C5_PairingIdempotence == []C5_State /\ [][C5_Step]_vars

\* two executions for one sender ran side by side: the one that created the
\* request is sending the reply, the other got created = false
C5_Witness ==
  \E e1, e2 \in Requests :
    /\ dmPolicy = "pairing" /\ approved = {}
    /\ hm[e1].pc = "pairingSend"
    /\ hm[e2].pc = "upserted" /\ ~hm[e2].created
    /\ SenderOf(hm[e2].data) = SenderOf(hm[e1].data)
    /\ Cardinality(PairingReplies(SenderOf(hm[e1].data))) = 1

\* C6: under the disabled policy no execution of handleMessage reaches the
\* session record or the agent, none calls upsertPairingRequest and no
\* pairing message is sent, whatever the allowlist and the store hold.
C6_DisabledBlocksAll ==
  dmPolicy = "disabled" =>
    /\ dispatched = {} /\ upserts = {} /\ pairing = {}
    /\ \A o \in outbound : o.kind \notin {"pairingMsg", "replyMsg"}
    /\ \A e \in Requests : hm[e].pc \in {"none", "start", "storeRead", "done"}

\* disabled, a wildcard and the sender in the store, and every message handled
C6_Witness ==
  /\ dmPolicy = "disabled"
  /\ {SenderA, <<" ", "*">>} \subseteq store
  /\ storeReads = Requests
  /\ \A e \in Requests : hm[e].pc = "done"

\* The step in which handleMessage e decides on the store it has read
Decides(e) == hm[e].pc = "storeRead" /\ hm'[e].pc # "storeRead"

C7_Step ==
  \A e \in Requests :
    Decides(e) =>
      /\ dmPolicy = "open" => hm'[e].pc = "record" /\ matched' = matched
      /\ dmPolicy = "disabled" => hm'[e].pc = "done"

\* C7 (as the code has it): under the open policy every message that gets
\* to the gate is let through, with no sender match evaluated, and under
\* the disabled policy every one is dropped, whatever the static allowlist
\* and the store hold and whether the store read fails or not; the store is
\* nevertheless read, for each such message, before the policy is looked at.
C7_PolicyDecidesAlone ==
  /\ [](dmPolicy = "open" => matched = {})
  /\ [](\A e \in Requests : hm[e].pc \in {"record", "dispatch"} => e \in storeReads)
  /\ [][C7_Step]_vars

\* open, a store that holds entries, and a message let through
C7_Witness ==
  /\ dmPolicy = "open"
  /\ store # {}
  /\ \E e \in Requests : hm[e].pc = "record"

\* C7 as stated: under the open and the disabled policy handling a message
\* reads no store and evaluates no allowlist match.
C7_NoStoreRead ==
  dmPolicy \in {"open", "disabled"} => storeReads = {} /\ matched = {}

\* C8 as stated: under the disabled policy no platform call is made at all,
\* and for an execution in the pairing branch the only call made for its
\* message is the pairing-code message.
C8_SilenceForGated ==
  /\ dmPolicy = "disabled" => outbound = {}
  /\ \A e \in Requests :
       hm[e].pc \in {"upsert", "upserted", "pairingSend", "pairingBackoff"} =>
         \A o \in outbound : o.id = e => o.kind = "pairingMsg"

Last(seq) == seq[Len(seq)]

C9_State ==
  /\ sd.fetches <= 3
  /\ Len(sd.log) <= sd.fetches
  /\ \A i \in 1..(Len(sd.log) - 1) : sd.log[i].status = 429
  /\ sd.pc \in {"fetching", "waiting"} =>
       \A i \in 1..Len(sd.log) : sd.log[i].status = 429
  /\ (sd.pc = "done" /\ sd.op = "send" /\ sd.log # <<>>) =>
       /\ Len(sd.log) = sd.fetches
       /\ Last(sd.log).status = 429 => Len(sd.log) = 3
       /\ sd.result.status = Last(sd.log).status
       /\ sd.result.kind = "ok" <=>
            (Last(sd.log).status >= 200 /\ Last(sd.log).status <= 299)
       /\ Last(sd.log).status = 429 =>
            sd.result.kind = "error" /\ sd.result.status = 429
  /\ sd.op \in FireAndForgetOps => sd.fetches <= 1 /\ sd.waits = <<>>

\* C9: a send makes at most 3 HTTP attempts, goes round again only after a
\* 429, returns the first response that is not a 429 with no further
\* attempt, and after three 429s raises an error carrying status 429; the
\* typing, read and reaction calls make one attempt; and every call that
\* was started ends.
C9_BoundedRetry ==
  /\ []C9_State
  /\ (sd.pc \in {"fetching", "waiting"}) ~> (sd.pc = "done")

\* three 429s in a row: three attempts, two waits, an error with status 429
C9_Witness ==
  /\ sd.pc = "done" /\ sd.op = "send"
  /\ sd.fetches = 3 /\ Len(sd.waits) = 2
  /\ \A i \in 1..3 : sd.log[i].status = 429
  /\ sd.result.kind = "error" /\ sd.result.status = 429

\* The seconds, in thousandths, a Retry-After header asks for when it is a
\* positive number; 0 for an absent, empty, zero, negative or non-numeric one
PositiveRetryAfterMs(header) ==
  CASE header = <<"1">> -> 1000
    [] header = <<"2", "0">> -> 20000
    [] header = <<"1", ".", "5">> -> 1500
    [] OTHER -> 0

ExpectedWait(header, k) ==
  LET D == IF PositiveRetryAfterMs(header) > 0 THEN PositiveRetryAfterMs(header)
           ELSE IF k = 0 THEN 500 ELSE 1000
  IN IF D < 10000 THEN D ELSE 10000

\* C10: the wait before retry k (0 or 1) is min(D, 10000) ms, D being the
\* Retry-After seconds times 1000 when the 429 carries a positive number
\* and 500 * 2^k otherwise; no wait is over 10 s; and a 429 with
\* Retry-After 1 followed by a 200 gives one wait of 1000 ms and a success.
C10_BackoffDelay ==
  /\ (sd.op = "send" /\ sd.fetches > 0) =>
       Len(sd.waits) = IF sd.pc = "waiting" THEN sd.fetches ELSE sd.fetches - 1
  /\ \A k \in 0..(Len(sd.waits) - 1) :
       /\ sd.waits[k + 1] = ExpectedWait(sd.log[k + 1].retryAfter, k)
       /\ sd.waits[k + 1] <= 10000
  /\ (sd.pc = "done" /\ sd.log = <<Response(429, <<"1">>), Response(200, NoStr)>>) =>
       sd.waits = <<1000>> /\ sd.result.kind = "ok"

\* a 429 with Retry-After 1, one wait of 1000 ms, then the 200 and success
C10_Witness ==
  /\ sd.pc = "done"
  /\ sd.log = <<Response(429, <<"1">>), Response(200, NoStr)>>
  /\ sd.waits = <<1000>>
  /\ sd.result.kind = "ok"

\* The entry request r is about to hand to the debouncer (line 374)
EntryOf(r) == [event |-> [reqs[r].body.data EXCEPT !.id = r]]
Enqueues(r) == r \in enqueued' /\ r \notin enqueued
TextOf(entry) == extractTextContent(entry.event.parts)
HasSender(entry) == entry.event.from # NoStr /\ Trim(entry.event.from) # <<>>

\* The DebounceKey of an entry that has a sender
KeyOf(entry) == <<accountId, entry.event.chat_id, Trim(entry.event.from)>>

\* Does the entry wait for the timer: a text that is not blank and no command
Waits(entry) ==
  /\ HasSender(entry)
  /\ Trim(TextOf(entry)) # <<>>
  /\ ~hasControlCommand(TextOf(entry))

PendingItems(key) ==
  IF \E b \in buffers : b.key = key
  THEN (CHOOSE b \in buffers : b.key = key).items
  ELSE <<>>

\* The batch b leaves the debouncer in this step
Flushes(b) == b \in buffers /\ ~(\E c \in buffers' : c.key = b.key)

Started == {e \in Requests : hm[e].pc = "none" /\ hm'[e].pc # "none"}

C11_State ==
  /\ \A b \in buffers :
       /\ Len(b.items) >= 1
       /\ \A i \in 1..Len(b.items) :
            /\ KeyOf(b.items[i]) = b.key
            /\ Waits(b.items[i])
            /\ hm[b.items[i].event.id].pc = "none"
  /\ \A b, c \in buffers : b.key = c.key => b = c

C11_Step ==
  /\ \A r \in Requests :
       (Enqueues(r) /\ Waits(EntryOf(r))) =>
         /\ Started = {}
         /\ \E b \in buffers' :
              /\ b.key = KeyOf(EntryOf(r))
              /\ b.items = Append(PendingItems(b.key), EntryOf(r))
         /\ \A c \in buffers : c.key # KeyOf(EntryOf(r)) => c \in buffers'
  /\ \A b \in buffers :
       Flushes(b) =>
         LET last == b.items[Len(b.items)].event
             texts == [i \in 1..Len(b.items) |-> TextOf(b.items[i])]
         IN /\ Started = {last.id}
            /\ hm'[last.id].pc = "start"
            /\ extractTextContent(hm'[last.id].data.parts) = JoinLines(texts)
            /\ buffers' = buffers \ {b}

\* C11: the events that wait for the timer are kept per DebounceKey in
\* arrival order, an event joining only the batch of its own key and
\* starting no handleMessage; when the batch of a key is flushed, exactly
\* one handleMessage starts, and the text it gets is the newline-join of
\* the texts of the batch in arrival order.
C11_DebounceCoalescing == []C11_State /\ [][C11_Step]_vars

\* one handleMessage was started with the texts of a burst of two, in order
C11_Witness ==
  \E e \in Requests :
    /\ hm[e].pc = "start"
    /\ extractTextContent(hm[e].data.parts) = JoinLines(<<Hi, Yo>>)

\* An entry with a sender whose text is blank or a control command
NoWait(entry) ==
  /\ HasSender(entry)
  /\ \/ Trim(TextOf(entry)) = <<>>
     \/ hasControlCommand(TextOf(entry))

C12_State ==
  \A b \in buffers : \A i \in 1..Len(b.items) : ~NoWait(b.items[i])

C12_Step ==
  \A r \in Requests :
    (Enqueues(r) /\ NoWait(EntryOf(r))) =>
      /\ Started = {r}
      /\ hm'[r].pc = "start"
      /\ hm'[r].data = EntryOf(r).event
      /\ turn' = r
      /\ buffers' = buffers

\* C12: an event with a sender whose text is blank or a control command is
\* handed to handleMessage in the step that enqueues it, unchanged and on
\* its own, whatever batches are pending; such an event is never put in a
\* batch, and the pending batches are left as they are.
C12_NoDelayForCommands == []C12_State /\ [][C12_Step]_vars

\* a command is being handled while a batch of the same key is pending
C12_Witness ==
  \E e \in Requests :
    /\ hm[e].pc = "start"
    /\ TextOf([event |-> hm[e].data]) = Cmd
    /\ \E b \in buffers : b.key = KeyOf([event |-> hm[e].data])

C13_Step ==
  \A b \in buffers :
    Flushes(b) =>
      LET last == b.items[Len(b.items)].event
          given == hm'[last.id].data
      IN /\ given.id = last.id
         /\ given.chat_id = last.chat_id
         /\ given.from = last.from
         /\ given.reply_to = last.reply_to
         /\ extractMediaUrls(given.parts) = extractMediaUrls(last.parts)
         /\ Len(b.items) = 1 => given = last

\* C13 as stated: the event handleMessage gets from a flush has the last
\* entry's conversation, sender, message id and reply context and the last
\* entry's media parts; a batch of one entry is handed on unchanged.
C13_SyntheticEvent == [][C13_Step]_vars

\* C14: with a signal supplied the call resolves only once the server has
\* emitted close; an aborted signal, aborted before the start or at any
\* time after, closes the server, and the call then resolves; after the
\* call has resolved no request is accepted.
Accepted == {r \in Requests : reqs[r].pc # "new"}

C14_State ==
  /\ srv.pc = "resolved" => srv.server = "closed"
  /\ (srv.pc = "wait" /\ srv.signal = "aborted") =>
       srv.server \in {"closing", "closed"}
  /\ srv.server \in {"closing", "closed"} => srv.signal = "aborted"

C14_Step ==
  /\ srv.server # "listening" => Accepted' = Accepted
  /\ (srv.pc # "resolved" /\ srv'.pc = "resolved") =>
       /\ srv.server = "closing"
       /\ \A r \in Requests : ~Open(r)

C14_GracefulShutdown ==
  /\ []C14_State
  /\ [][C14_Step]_vars
  /\ (srv.pc = "wait" /\ srv.signal = "aborted") ~> (srv.pc = "resolved")

C14_Witness ==
  /\ srv.pc = "resolved"
  /\ srv.abortedAt = "wait"
  /\ \E r \in Requests : resp[r] = 200
  /\ \E r \in Requests : reqs[r].pc = "new"

\* C15: when the send of the pairing-code message fails, the failure is
\* logged verbosely and handleMessage returns without raising; no further
\* attempt is made for that message then or by a later message of the
\* sender; the pairing request stays issued with the code it had, and no
\* other code is minted for the sender while the request is unresolved.
FailsReply(e) == hm[e].pc = "pairingSend" /\ hm'[e].pc = "done" /\ hm'[e].replyFailed

C15_State ==
  \A e \in Requests :
    hm[e].replyFailed =>
      /\ hm[e].pc = "done"
      /\ <<"flush", e>> \notin errorLog
      /\ LET sender == SenderOf(hm[e].data) IN
         sender \notin approved =>
           /\ [id |-> sender, code |-> hm[e].code] \in pairing
           /\ \A p \in pairing : p.id = sender => p.code = hm[e].code
           /\ PairingReplies(sender) = {Call("pairingMsg", hm[e].data)}

C15_Step ==
  /\ \A e \in Requests :
       FailsReply(e) =>
         UNCHANGED <<errorLog, pairing, codes, outbound, store>>
  /\ \A e \in Requests : hm[e].replyFailed => hm'[e] = hm[e]

C15_PairingReplyFailure == []C15_State /\ [][C15_Step]_vars

C15_Witness ==
  \E e, f \in Requests :
    /\ hm[e].replyFailed
    /\ SenderOf(hm[e].data) \notin approved
    /\ f # e /\ hm[f].pc = "done" /\ f \in upserts /\ ~hm[f].replyFailed
    /\ Call("read", [hm[e].data EXCEPT !.id = f]) \in outbound
    /\ codes = 1

\* C16: startTypingLinq, stopTypingLinq, markAsReadLinq and sendReactionLinq
\* make one HTTP call and, whatever comes of it (a 2xx response, another
\* response, a rejected fetch), end with a boolean and never with an
\* error: true exactly when the response has a status from 200 to 299.
C16_FireAndForget ==
  sd.op \in FireAndForgetOps =>
    /\ sd.pc \in {"fetching", "done"}
    /\ sd.fetches = 1 /\ sd.waits = <<>>
    /\ sd.pc = "done" =>
         /\ Len(sd.log) = 1
         /\ sd.result.kind = "bool"
         /\ sd.result.value \in BOOLEAN
         /\ sd.result.value <=>
              /\ sd.log[1] # NetworkError
              /\ sd.log[1].status \in 200..299

C16_Witness ==
  /\ sd.op = "markAsRead" /\ sd.pc = "done"
  /\ sd.log = <<NetworkError>>
  /\ sd.result.kind = "bool" /\ ~sd.result.value

\* C17: sendMessageLinq raises "Linq API token not configured" when
\* neither the token option (trimmed) nor the account gives a token, and
\* "Linq send requires text or media" when the text is empty and the media
\* URL is absent or blank, both before any HTTP call; otherwise the parts
\* it sends are the text part, then the media part, and a final response
\* that is not 2xx raises an error with the status and the first 200
\* characters at most of the response body.
NoToken(a) ==
  /\ a.optToken = NoStr \/ Trim(a.optToken) = <<>>
  /\ a.accountToken = NoStr \/ a.accountToken = <<>>
NothingToSend(a) ==
  /\ a.text = <<>>
  /\ a.mediaUrl = NoStr \/ Trim(a.mediaUrl) = <<>>
RaisedEarly(message) ==
  /\ sd.pc = "done"
  /\ sd.result.kind = "error" /\ sd.result.message = message
  /\ sd.fetches = 0 /\ sd.log = <<>>

C17_SendPreconditions ==
  sd.op = "send" =>
    IF NoToken(sd.args) THEN RaisedEarly("Linq API token not configured")
    ELSE IF NothingToSend(sd.args) THEN RaisedEarly("Linq send requires text or media")
    ELSE /\ sd.fetches >= 1
         /\ Len(sd.parts) \in 1..2
         /\ sd.args.text # <<>> =>
              sd.parts[1] = [type |-> "text", value |-> sd.args.text]
         /\ ~(sd.args.mediaUrl = NoStr \/ Trim(sd.args.mediaUrl) = <<>>) =>
              sd.parts[Len(sd.parts)] =
                [type |-> "media", url |-> Trim(sd.args.mediaUrl)]
         /\ Len(sd.parts) = 2 =>
              sd.parts[1].type = "text" /\ sd.parts[2].type = "media"
         /\ (sd.pc = "done" /\ Last(sd.log) # NetworkError
                /\ Last(sd.log).status \notin 200..299) =>
              /\ sd.result.kind = "error"
              /\ sd.result.message = "Linq API error"
              /\ sd.result.status = Last(sd.log).status
              /\ Len(sd.result.text) <= 200
              /\ sd.body # NoStr =>
                   /\ Len(sd.result.text) = Min(Len(sd.body), 200)
                   /\ \A i \in 1..Len(sd.result.text) :
                        sd.result.text[i] = sd.body[i]

C17_Witness ==
  /\ sd.op = "send" /\ sd.pc = "done"
  /\ Len(sd.parts) = 2
  /\ Last(sd.log).status = 500
  /\ Len(sd.body) = 201 /\ Len(sd.result.text) = 200

\* C18: verifyWebhookSignature is true if and only if the signature is the
\* hex HMAC-SHA256 digest of timestamp + "." + payload under the secret;
\* every other signature text, the digest with characters appended
\* included, gives false.
C18_SignatureVerification ==
  \A r \in Requests :
    (/\ webhookSecret # <<>>
     /\ reqs[r].pc \in {"ack", "rejected"}
     /\ Truthy(reqs[r].ts) /\ Truthy(reqs[r].sig)) =>
      (verifyWebhookSignature(webhookSecret, reqs[r].body, reqs[r].ts, reqs[r].sig)
         <=> reqs[r].sig = HmacSha256Hex(webhookSecret, reqs[r].ts, reqs[r].body))

\* C19 (as the code has it): under the pairing policy the gate decides
\* each message on the store as it is when that message's read of it
\* resolves, never on an earlier copy: a sender the merged list admits then
\* goes on towards the agent with no pairing request, and a sender it does
\* not admit (one removed from the store included) gets the pairing
\* request; a read that fails counts as an empty store, so that a sender
\* admitted by the store alone is then gated.
ListRead(e) == IF hm'[e].readOk THEN Merged(store) ELSE Merged({})

C19_Step ==
  \A e \in Requests :
    (Decides(e) /\ dmPolicy = "pairing") =>
      IF ListAdmits(ListRead(e), SenderOf(hm[e].data))
      THEN hm'[e].pc = "record" /\ e \notin upserts' /\ outbound' = outbound
      ELSE hm'[e].pc = "upsert" /\ e \in upserts'

C19_FreshStoreRead == [][C19_Step]_vars

\* a sender who was sent a pairing code and approved since is let through
C19_Witness ==
  /\ dmPolicy = "pairing"
  /\ \E e \in Requests :
       /\ hm[e].pc = "record" /\ hm[e].readOk
       /\ SenderOf(hm[e].data) \in approved \cap store
       /\ PairingReplies(SenderOf(hm[e].data)) # {}

\* C19 as stated: under the pairing policy every message from a sender
\* the store admits when the message is decided is let through and
\* triggers no pairing request.
C19_Unconditional ==
  \A e \in Requests :
    (Decides(e) /\ dmPolicy = "pairing"
       /\ ListAdmits(Merged(store), SenderOf(hm[e].data))) =>
      hm'[e].pc = "record" /\ e \notin upserts'

C19_NoStaleAuthorization == [][C19_Unconditional]_vars

\* C20: with no dmPolicy configured the policy is open: every message that
\* gets to the gate is let through, from a sender on no list too, and no
\* pairing request is made.
C20_DefaultPolicyOpen ==
  linqCfg.dmPolicy = Undefined =>
    /\ upserts = {}
    /\ pairing = {}
    /\ \A e \in Requests : hm[e].pc = "done" /\ e \in storeReads => e \in dispatched

\* C21: a failure in the processing of one event after its ack (the body
\* does not parse; handleMessage rejects during a flush, on the pairing
\* upsert, the session record or the agent dispatch) is reported through
\* runtime.error and ends that event alone: the step changes no pending
\* batch, no other request or execution, no response, and the server goes
\* on listening with the event loop free; events handled once an error has
\* been reported are acked, enqueued and dispatched as always.
ParseFails(r) ==
  reqs[r].pc = "parse" /\ reqs[r].body.json # "object" /\ reqs'[r].pc # "parse"
FlushFails(e) ==
  /\ hm'[e].pc = "done"
  /\ \/ hm[e].pc \in {"upsert", "record"}
     \/ hm[e].pc = "dispatch" /\ errorLog' # errorLog
Isolated(e) ==
  /\ buffers' = buffers
  /\ \A f \in Requests \ {e} : hm'[f] = hm[f] /\ reqs'[f] = reqs[f]
  /\ resp' = resp /\ resp[e] = 200
  /\ turn' = 0
  /\ UNCHANGED <<srv, enqueued, outbound, dispatched, store, pairing, codes>>

\* the callback holding the event loop can go on, and a request can arrive
TurnStep ==
  \E r \in Requests :
    \/ ReqAuth(r) \/ ReqRejected(r) \/ ReqAck(r) \/ ReqParse(r)
    \/ ReqEnqueue(r) \/ HM_Start(r)
Arrival == \E r \in Requests : ReqArrive(r, "POST", WebhookPathDefault)

C21_State ==
  /\ \A entry \in errorLog : resp[entry[2]] = 200
  /\ errorLog # {} =>
       /\ srv.server = "listening"
       /\ turn # 0 => ENABLED TurnStep
       /\ (turn = 0 /\ \E r \in Requests : reqs[r].pc = "new") => ENABLED Arrival

C21_Step ==
  /\ \A e \in Requests :
       /\ ParseFails(e) => errorLog' = errorLog \cup {<<"parse", e>>} /\ Isolated(e)
       /\ FlushFails(e) => errorLog' = errorLog \cup {<<"flush", e>>} /\ Isolated(e)
  /\ errorLog' # errorLog => \E e \in Requests : ParseFails(e) \/ FlushFails(e)
  /\ errorLog # {} =>
       \A f \in Requests :
         /\ (reqs[f].pc = "ack" /\ reqs'[f].pc # "ack") => resp'[f] = 200
         /\ (Enqueues(f) /\ Waits(EntryOf(f))) =>
              \E b \in buffers' :
                b.key = KeyOf(EntryOf(f)) /\ Last(b.items) = EntryOf(f)
         /\ (Enqueues(f) /\ NoWait(EntryOf(f))) => hm'[f].pc = "start"
         /\ (hm[f].pc = "record" /\ hm'[f].pc = "dispatch") => f \in dispatched'

C21_FailureIsolation == []C21_State /\ [][C21_Step]_vars

\* the flush of one event failed with a batch of another key pending, and
\* an event acked later has reached the agent
C21_Witness ==
  \E e, f \in Requests :
    /\ e < f
    /\ <<"flush", e>> \in errorLog
    /\ resp[f] = 200 /\ f \in enqueued /\ f \in dispatched

\* C22: a message.received event with no sender or a blank one, flagged
\* is_from_me, addressed to another phone than fromPhone, or with neither
\* text nor media never reaches the agent and causes no store read, no
\* pairing request, no platform call and no error: handleMessage returns
\* on it at once, and no execution that goes on holds anything of it.
Sources(e) ==
  IF \E b \in buffers : Flushes(b)
  THEN LET b == CHOOSE c \in buffers : Flushes(c)
       IN {b.items[i].event : i \in 1..Len(b.items)}
  ELSE {EntryOf(e).event}

C22_Step ==
  /\ \A e \in Requests :
       (hm[e].pc = "start" /\ hm'[e].pc # "start" /\ ~eligible(hm[e].data)) =>
         /\ hm'[e].pc = "done"
         /\ UNCHANGED <<storeReads, upserts, pairing, outbound, dispatched, errorLog>>
  /\ \A e \in Started :
       eligible(hm'[e].data) => \A event \in Sources(e) : eligible(event)
  /\ \A r \in Requests :
       (Enqueues(r) /\ ~HasSender(EntryOf(r))) =>
         UNCHANGED <<buffers, hm, storeReads, outbound, errorLog>>

C22_IneligibleNoEffect == [][C22_Step]_vars

====
